---- MODULE Spec2Model ----
(***************************************************************************)
(* Model of the connection-handling core of shadowsocksr-native:           *)
(*   src/src/client/tunnel.c       the Session (tunnel_ctx) with its two   *)
(*                                 Socket Contexts, driven by libuv        *)
(*                                 completion callbacks;                   *)
(*   src/src/sockaddr_universal.c  the SOCKS5 target-address codec.        *)
(*                                                                         *)
(* The C functions take a pointer to the struct they work on; here each    *)
(* function is an operator from a world record w (the tunnel_ctx, the two  *)
(* socket_ctx, the reactor's pending work, the process) to the world after *)
(* the call, so that a function that calls another is the composition of   *)
(* the two operators, as in the source.                                    *)
(***************************************************************************)
EXTENDS Integers, Sequences, FiniteSets, TLC

VARIABLES tunnel, socket, loop, proc, trace, codec

vars == <<tunnel, socket, loop, proc, trace, codec>>

(***************************************************************************)
(* Bounds of the model.                                                    *)
(***************************************************************************)
\* Write requests that may be queued on one stream at a time (streaming mode
\* lets the collaborator issue a write before the previous one completed).
MaxWrites == 2

(***************************************************************************)
(* Names.                                                                  *)
(***************************************************************************)
Sockets == {"incoming", "outgoing"}

\* The two OS resources a socket_ctx owns: handle.handle and timer_handle.
Resources == {"handle", "timer"}

\* rdstate and wrstate take the values socket_stop, socket_busy, socket_done
\* and socket_dead (Idle, InProgress, Completed, Closed in the
\* specification's words).

\* Status values a write completion is delivered with.
WriteStatus == {"OK", "UV_EIO", "UV_ECANCELED"}

\* Status values a connect completion is delivered with.
ConnectStatus == {"OK", "UV_EIO", "UV_ECANCELED", "UV_ECONNREFUSED"}

\* Status values a resolution completion is delivered with.
ResolveStatus == {"OK", "UV_EIO", "UV_ECANCELED"}

\* nread of a read completion: 0, a byte count > 0, or one of the two errors
\* the callback admits.
ReadResults == {"ZERO", "NREAD", "UV_EOF", "UV_ECONNRESET"}

(***************************************************************************)
(* The world.                                                              *)
(***************************************************************************)
World == [tunnel |-> tunnel, socket |-> socket, loop |-> loop,
          proc |-> proc, trace |-> trace]

Set(w) ==
    /\ tunnel' = w.tunnel
    /\ socket' = w.socket
    /\ loop' = w.loop
    /\ proc' = w.proc
    /\ trace' = w.trace

\* ASSERT(exp) / VERIFY(exp) with exp false: the process aborts where it
\* stands (ASSERT is taken as compiled in); what was stored before stays.
Abort(w) == [w EXCEPT !.proc.fault = "abort"]

Running(w) == w.proc.fault = "none"

\* The collaborator's hook `name` is invoked.
Hook(w, name) == [w EXCEPT !.trace.hook = name]

\* c->result = code.  tunnel.c only ever writes the field; its reader is the
\* hook the same callback goes on to invoke, so the model keeps the store
\* of the current step (trace.result) and not a field that outlives it.
StoreResult(w, s, code) == [w EXCEPT !.trace.result = <<s, code>>]

(***************************************************************************)
(* The reactor (libuv) as tunnel.c uses it.  A handle is open, closing     *)
(* (uv_close was called, its close callback is outstanding) or closed.     *)
(***************************************************************************)
IsClosing(w, s, r) == w.loop.handle[<<s, r>>] # "open"

\* uv_timer_start: a one-shot countdown; a timer that is already armed is
\* re-armed.  A closing handle cannot be started: the call returns an error.
uv_timer_start_fails(w, s) == IsClosing(w, s, "timer")

uv_timer_start(w, s) == [w EXCEPT !.loop.timer[s] = TRUE]

uv_timer_stop(w, s) == [w EXCEPT !.loop.timer[s] = FALSE]

\* uv_read_start on a closing stream returns an error.
uv_read_start_fails(w, s) == IsClosing(w, s, "handle")

uv_read_start(w, s) == [w EXCEPT !.loop.reading[s] = TRUE]

uv_read_stop(w, s) == [w EXCEPT !.loop.reading[s] = FALSE]

\* uv_write on a stream whose descriptor is gone returns an error.
uv_write_fails(w, s) == IsClosing(w, s, "handle")

uv_write(w, s) == [w EXCEPT !.loop.writes[s] = @ + 1]

\* uv_tcp_connect: rc is its return value (an address the stack refuses at
\* once is reported synchronously and leaves no request behind).
uv_tcp_connect(w, s, rc) ==
    IF rc = "OK" THEN [w EXCEPT !.loop.req[s] = "connect"] ELSE w

uv_getaddrinfo(w, s) == [w EXCEPT !.loop.req[s] = "getaddrinfo"]

\* uv_cancel is best effort: took says whether the request was still queued.
\* The callback runs in both cases.
uv_cancel(w, s, took) ==
    LET w1 == [w EXCEPT !.trace.cancels = @ + 1]
    IN  IF took /\ w.loop.req[s] = "getaddrinfo"
        THEN [w1 EXCEPT !.loop.req[s] = "getaddrinfo_canceled"]
        ELSE w1

\* uv_close: the handle stops (no read callback, no timer callback after
\* it); the stream's write and connect requests are completed (the queued
\* ones with UV_ECANCELED) before the close callback runs.
uv_close(w, s, r) ==
    LET w1 == [w EXCEPT !.loop.handle[<<s, r>>] = "closing"]
    IN  IF r = "timer"
        THEN [w1 EXCEPT !.loop.timer[s] = FALSE]
        ELSE [w1 EXCEPT !.loop.reading[s] = FALSE]

(***************************************************************************)
(* tunnel.c                                                                *)
(***************************************************************************)
tunnel_is_dead(w) == w.tunnel.terminated # FALSE

tunnel_add_ref(w) ==
    [w EXCEPT !.tunnel.ref_count = @ + 1, !.trace.add_refs = @ + 1]

\* A tunnel_release that tests the count it had before the decrement
\* (if (tunnel->ref_count-- == 0)).
tunnel_release_post_decrement(w) ==
    LET w1 == [w EXCEPT !.tunnel.ref_count = @ - 1]
    IN  IF w.tunnel.ref_count = 0
        THEN [Hook(w1, "on_destroy") EXCEPT !.trace.destroyed = @ + 1,
                                            !.proc.freed = TRUE]
        ELSE w1

\* Reaching zero: tunnel_dying (on_destroy), then the buffers, both
\* socket_ctx and the tunnel_ctx are freed.
tunnel_release(w) ==
    LET w1 == [w EXCEPT !.tunnel.ref_count = @ - 1]
    IN  IF w1.tunnel.ref_count = 0
        THEN [Hook(w1, "on_destroy") EXCEPT !.trace.destroyed = @ + 1,
                                            !.proc.freed = TRUE]
        ELSE w1

socket_timer_start(w, s) ==
    IF ~Running(w) THEN w
    ELSE IF uv_timer_start_fails(w, s) THEN Abort(w)
    ELSE uv_timer_start(w, s)

socket_timer_stop(w, s) == uv_timer_stop(w, s)

\* A socket_close that takes one reference for the two uv_close calls.
socket_close_single_ref(w, s) ==
    IF ~Running(w) THEN w
    ELSE IF w.socket[s].rdstate = "socket_dead" \/ w.socket[s].wrstate = "socket_dead"
    THEN Abort(w)
    ELSE LET w1 == [w EXCEPT !.socket[s].rdstate = "socket_dead",
                             !.socket[s].wrstate = "socket_dead",
                             !.trace.closes[s] = @ + 1]
             w2 == uv_close(tunnel_add_ref(w1), s, "handle")
         IN  uv_close(w2, s, "timer")

socket_close(w, s) ==
    IF ~Running(w) THEN w
    ELSE IF w.socket[s].rdstate = "socket_dead" \/ w.socket[s].wrstate = "socket_dead"
    THEN Abort(w)
    ELSE LET w1 == [w EXCEPT !.socket[s].rdstate = "socket_dead",
                             !.socket[s].wrstate = "socket_dead",
                             !.trace.closes[s] = @ + 1]
             w2 == uv_close(tunnel_add_ref(w1), s, "handle")
         IN  uv_close(tunnel_add_ref(w2), s, "timer")

\* A tunnel_shutdown without the tunnel_is_dead test.
tunnel_shutdown_unguarded(w, took) ==
    IF ~Running(w) THEN w
    ELSE LET w1 == IF w.tunnel.getaddrinfo_pending
                   THEN uv_cancel(w, "outgoing", took)
                   ELSE w
             w2 == socket_close(w1, "incoming")
             w3 == socket_close(w2, "outgoing")
         IN  IF Running(w3) THEN [w3 EXCEPT !.tunnel.terminated = TRUE] ELSE w3

tunnel_shutdown(w, took) ==
    IF ~Running(w) THEN w
    ELSE IF tunnel_is_dead(w) # FALSE THEN w
    ELSE LET w1 == IF w.tunnel.getaddrinfo_pending
                   THEN uv_cancel(w, "outgoing", took)
                   ELSE w
             w2 == socket_close(w1, "incoming")
             w3 == socket_close(w2, "outgoing")
         IN  IF Running(w3) THEN [w3 EXCEPT !.tunnel.terminated = TRUE] ELSE w3

\* What the collaborator's on_timeout hook does with the Session before it
\* returns: nothing, or a shutdown of its own.
TimeoutHookCalls == {"none", "tunnel_shutdown"}

socket_timer_expire_cb(w, s, call, took) ==
    LET w1 == StoreResult(w, s, "UV_ETIMEDOUT")
    IN  IF tunnel_is_dead(w1) THEN w1
        ELSE LET w2 == Hook(w1, "on_timeout")
                 w3 == IF call = "tunnel_shutdown"
                       THEN tunnel_shutdown(w2, took)
                       ELSE w2
             IN  tunnel_shutdown(w3, took)

socket_connect(w, s, rc) ==
    LET w1 == socket_timer_start(w, s)
    IN  IF ~Running(w1) THEN w1 ELSE uv_tcp_connect(w1, s, rc)

\* A socket_connect_done_cb that treats a refused connection as any other
\* failure (only UV_ECANCELED shuts down).
socket_connect_done_cb_refused_delivered(w, s, status, took) ==
    LET w1 == StoreResult(w, s, status)
    IN  IF tunnel_is_dead(w1) THEN w1
        ELSE LET w2 == socket_timer_stop(w1, s)
             IN  IF status = "UV_ECANCELED"
                 THEN tunnel_shutdown(w2, took)
                 ELSE Hook(w2, "on_outgoing_connected")

socket_connect_done_cb(w, s, status, took) ==
    LET w1 == StoreResult(w, s, status)
    IN  IF tunnel_is_dead(w1) THEN w1
        ELSE LET w2 == socket_timer_stop(w1, s)
             IN  IF status = "UV_ECANCELED" \/ status = "UV_ECONNREFUSED"
                 THEN tunnel_shutdown(w2, took)
                 ELSE Hook(w2, "on_outgoing_connected")

socket_read(w, s) ==
    IF w.socket[s].rdstate # "socket_stop" THEN Abort(w)
    ELSE IF uv_read_start_fails(w, s) THEN Abort(w)
    ELSE LET w1 == uv_read_start(w, s)
             w2 == [w1 EXCEPT !.socket[s].rdstate = "socket_busy"]
         IN  socket_timer_start(w2, s)

\* Runs before every read completion; only its assertion is modelled, the
\* buffer's size is not part of the state.
socket_alloc_cb(w, s) ==
    IF w.proc.streaming = FALSE /\ w.socket[s].rdstate # "socket_busy"
    THEN Abort(w)
    ELSE w

\* A socket_read_done_cb that leaves the stream reading in one-shot mode
\* too (no uv_read_stop).
socket_read_done_cb_never_stops(w, s, nread, took) ==
    IF ~Running(w) THEN w
    ELSE IF tunnel_is_dead(w) THEN w
    ELSE LET w2 == socket_timer_stop(w, s)
         IN  IF nread = "ZERO" THEN w2
             ELSE IF nread \in {"UV_EOF", "UV_ECONNRESET"}
             THEN tunnel_shutdown(w2, took)
             ELSE IF w2.proc.streaming = FALSE /\ w2.socket[s].rdstate # "socket_busy"
             THEN Abort(w2)
             ELSE Hook(StoreResult([w2 EXCEPT !.socket[s].rdstate = "socket_done"],
                                   s, "NREAD"),
                       "on_read_complete")

socket_read_done_cb(w, s, nread, took) ==
    IF ~Running(w) THEN w
    ELSE IF tunnel_is_dead(w) THEN w
    ELSE LET w1 == IF w.proc.streaming = FALSE THEN uv_read_stop(w, s) ELSE w
             w2 == socket_timer_stop(w1, s)
         IN  IF nread = "ZERO" THEN w2
             ELSE IF nread \in {"UV_EOF", "UV_ECONNRESET"}
             THEN tunnel_shutdown(w2, took)
             ELSE IF w2.proc.streaming = FALSE /\ w2.socket[s].rdstate # "socket_busy"
             THEN Abort(w2)
             ELSE Hook(StoreResult([w2 EXCEPT !.socket[s].rdstate = "socket_done"],
                                   s, "NREAD"),
                       "on_read_complete")

socket_read_stop(w, s) ==
    [uv_read_stop(w, s) EXCEPT !.socket[s].rdstate = "socket_stop"]

socket_getaddrinfo(w, s) ==
    LET w1 == uv_getaddrinfo(w, s)
        w2 == socket_timer_start(w1, s)
    IN  IF ~Running(w2) THEN w2
        ELSE [w2 EXCEPT !.tunnel.getaddrinfo_pending = TRUE]

\* A socket_getaddrinfo_done_cb that clears getaddrinfo_pending only after
\* the tunnel_is_dead test.
socket_getaddrinfo_done_cb_flag_late(w, s, status) ==
    LET w1 == StoreResult(w, s, status)
    IN  IF tunnel_is_dead(w1) THEN w1
        ELSE Hook(socket_timer_stop([w1 EXCEPT !.tunnel.getaddrinfo_pending = FALSE],
                                    s),
                  "on_resolve_complete")

socket_getaddrinfo_done_cb(w, s, status) ==
    LET w1 == [StoreResult(w, s, status) EXCEPT
                  !.tunnel.getaddrinfo_pending = FALSE]
    IN  IF tunnel_is_dead(w1) THEN w1
        ELSE Hook(socket_timer_stop(w1, s), "on_resolve_complete")

\* A socket_write without its assertion on wrstate.
socket_write_unasserted(w, s) ==
    LET w1 == [w EXCEPT !.socket[s].wrstate = "socket_busy"]
    IN  IF uv_write_fails(w1, s) THEN Abort(w1)
        ELSE socket_timer_start(uv_write(w1, s), s)

socket_write(w, s) ==
    IF w.proc.streaming = FALSE
       /\ w.socket[s].wrstate \notin {"socket_stop", "socket_done"}
    THEN Abort(w)
    ELSE LET w1 == [w EXCEPT !.socket[s].wrstate = "socket_busy"]
         IN  IF uv_write_fails(w1, s) THEN Abort(w1)
             ELSE socket_timer_start(uv_write(w1, s), s)

\* A socket_write_done_cb that shuts down on every failed status
\* (status != 0 in place of status == UV_ECANCELED).
socket_write_done_cb_any_error(w, s, status, took) ==
    IF tunnel_is_dead(w) THEN w
    ELSE LET w1 == socket_timer_stop(w, s)
         IN  IF status # "OK" THEN tunnel_shutdown(w1, took)
             ELSE IF w1.proc.streaming = FALSE /\ w1.socket[s].wrstate # "socket_busy"
             THEN Abort(w1)
             ELSE Hook(StoreResult([w1 EXCEPT !.socket[s].wrstate = "socket_done"],
                                   s, status),
                       "on_write_complete")

\* A socket_write_done_cb without the tunnel_is_dead test.
socket_write_done_cb_unchecked(w, s, status, took) ==
    LET w1 == socket_timer_stop(w, s)
    IN  IF status = "UV_ECANCELED" THEN tunnel_shutdown(w1, took)
        ELSE IF w1.proc.streaming = FALSE /\ w1.socket[s].wrstate # "socket_busy"
        THEN Abort(w1)
        ELSE Hook(StoreResult([w1 EXCEPT !.socket[s].wrstate = "socket_done"],
                              s, status),
                  "on_write_complete")

socket_write_done_cb(w, s, status, took) ==
    IF tunnel_is_dead(w) THEN w
    ELSE LET w1 == socket_timer_stop(w, s)
         IN  IF status = "UV_ECANCELED" THEN tunnel_shutdown(w1, took)
             ELSE IF w1.proc.streaming = FALSE /\ w1.socket[s].wrstate # "socket_busy"
             THEN Abort(w1)
             ELSE Hook(StoreResult([w1 EXCEPT !.socket[s].wrstate = "socket_done"],
                                   s, status),
                       "on_write_complete")

socket_close_done_cb(w, s, r) == tunnel_release(w)

\* A tunnel_initialize with the test of success inverted.
tunnel_initialize_inverted(w, success) ==
    LET w1 == [Hook(w, "on_init") EXCEPT !.proc.phase = "running",
                                         !.trace.on_init = success]
    IN  IF ~success THEN socket_read(w1, "incoming")
        ELSE tunnel_shutdown(w1, FALSE)

\* The part of tunnel_initialize after the two socket_ctx are set up:
\* success is what init_done_cb (on_init) returned.
tunnel_initialize(w, success) ==
    LET w1 == [Hook(w, "on_init") EXCEPT !.proc.phase = "running",
                                         !.trace.on_init = success]
    IN  IF success THEN socket_read(w1, "incoming")
        ELSE tunnel_shutdown(w1, FALSE)

(***************************************************************************)
(* State after construction (tunnel.c lines 76-100): both socket_ctx are   *)
(* calloc'ed, rdstate = wrstate = socket_stop, ref_count = 0, no timer     *)
(* armed, nothing in flight.                                               *)
(***************************************************************************)
TunnelInit ==
    /\ tunnel = [terminated |-> FALSE, ref_count |-> 0,
                 getaddrinfo_pending |-> FALSE]
    /\ socket = [s \in Sockets |->
                   [rdstate |-> "socket_stop", wrstate |-> "socket_stop"]]
    /\ loop = [timer |-> [s \in Sockets |-> FALSE],
               reading |-> [s \in Sockets |-> FALSE],
               writes |-> [s \in Sockets |-> 0],
               req |-> [s \in Sockets |-> "none"],
               handle |-> [h \in Sockets \X Resources |-> "open"]]
    /\ proc = [phase |-> "created", fault |-> "none", freed |-> FALSE,
               streaming |-> FALSE]
    /\ trace = [op |-> "init", status |-> "none", hook |-> "none",
                result |-> <<>>,
                on_init |-> FALSE, destroyed |-> 0, add_refs |-> 0,
                cancels |-> 0, closes |-> [s \in Sockets |-> 0]]

\* Every step starts with the name of the function the reactor or the
\* collaborator enters, and no hook invoked yet.
Enter(name) ==
    [World EXCEPT !.trace.op = name, !.trace.status = "none",
                  !.trace.hook = "none", !.trace.result = <<>>]

\* The reactor enters the completion callback `name` with the argument
\* status (nread for a read).
Deliver(name, status) == [Enter(name) EXCEPT !.trace.status = status]

\* The process is alive and the Session's memory has not been released.
Alive == proc.fault = "none" /\ proc.freed = FALSE

\* The collaborator holds a Session it may call into.
CollaboratorMayCall == Alive /\ proc.phase = "running"


(***************************************************************************)
(* Steps.  The reactor runs one callback at a time; the collaborator calls *)
(* the core's operations from its hooks, which are the last statement of   *)
(* the callback that invokes them (on_timeout excepted, see                *)
(* socket_timer_expire_cb), so a call is a step that follows the callback. *)
(***************************************************************************)
\* The listener accepted a connection: tunnel_initialize.
Create ==
    /\ Alive /\ proc.phase = "created"
    /\ \E success \in BOOLEAN :
         Set(tunnel_initialize(Enter("tunnel_initialize"), success))
    /\ UNCHANGED codec

CallRead ==
    /\ CollaboratorMayCall
    /\ \E s \in Sockets : Set(socket_read(Enter("socket_read"), s))
    /\ UNCHANGED codec

CallReadStop ==
    /\ CollaboratorMayCall
    /\ \E s \in Sockets : Set(socket_read_stop(Enter("socket_read_stop"), s))
    /\ UNCHANGED codec

CallWrite ==
    /\ CollaboratorMayCall
    /\ \E s \in Sockets :
         /\ loop.writes[s] < MaxWrites
         /\ Set(socket_write(Enter("socket_write"), s))
    /\ UNCHANGED codec

\* connect and resolve are issued on the destination side; both use the
\* socket's one request slot (the union t), so neither is issued while the
\* other is outstanding.
CallConnect ==
    /\ CollaboratorMayCall
    /\ loop.req["outgoing"] = "none"
    /\ \E rc \in {"OK", "UV_EINVAL"} :
         Set(socket_connect(Enter("socket_connect"), "outgoing", rc))
    /\ UNCHANGED codec

CallResolve ==
    /\ CollaboratorMayCall
    /\ loop.req["outgoing"] = "none"
    /\ Set(socket_getaddrinfo(Enter("socket_getaddrinfo"), "outgoing"))
    /\ UNCHANGED codec

CallShutdown ==
    /\ CollaboratorMayCall
    /\ \E took \in BOOLEAN :
         Set(tunnel_shutdown(Enter("tunnel_shutdown"), took))
    /\ UNCHANGED codec

\* The collaborator enters or leaves pass-through mode: what
\* tunnel_is_on_the_fly reports from now on.
SetStreaming ==
    /\ CollaboratorMayCall
    /\ \E b \in BOOLEAN :
         /\ b # proc.streaming
         /\ Set([Enter("set_streaming") EXCEPT !.proc.streaming = b])
    /\ UNCHANGED codec

\* A read completion: the reactor calls socket_alloc_cb, then
\* socket_read_done_cb.  Only a stream that is reading delivers one.
OnReadDone ==
    /\ Alive
    /\ \E s \in Sockets, nread \in ReadResults, took \in BOOLEAN :
         /\ loop.reading[s]
         /\ Set(socket_read_done_cb(
                  socket_alloc_cb(Deliver("socket_read_done_cb", nread), s),
                  s, nread, took))
    /\ UNCHANGED codec

\* A write completion: the request leaves the queue (free(req)).  On a
\* closing stream a queued write completes with UV_ECANCELED, but one that
\* had finished before uv_close was called is delivered with its own status.
OnWriteDone ==
    /\ Alive
    /\ \E s \in Sockets, status \in WriteStatus, took \in BOOLEAN :
         /\ loop.writes[s] > 0
         /\ Set(socket_write_done_cb(
                  [Deliver("socket_write_done_cb", status) EXCEPT
                      !.loop.writes[s] = @ - 1],
                  s, status, took))
    /\ UNCHANGED codec

OnConnectDone ==
    /\ Alive
    /\ \E s \in Sockets, status \in ConnectStatus, took \in BOOLEAN :
         /\ loop.req[s] = "connect"
         /\ IsClosing(World, s, "handle") => status = "UV_ECANCELED"
         /\ Set(socket_connect_done_cb(
                  [Deliver("socket_connect_done_cb", status) EXCEPT
                      !.loop.req[s] = "none"],
                  s, status, took))
    /\ UNCHANGED codec

\* A resolution completion comes from the thread pool and is tied to no
\* handle: it runs whether or not the Session was shut down, or freed.  On
\* freed memory what the callback reads as the terminated flag is any value.
OnResolveDone ==
    /\ proc.fault = "none"
    /\ \E s \in Sockets, status \in ResolveStatus, seen \in BOOLEAN :
         /\ loop.req[s] \in {"getaddrinfo", "getaddrinfo_canceled"}
         /\ (status = "UV_ECANCELED") <=> (loop.req[s] = "getaddrinfo_canceled")
         /\ proc.freed \/ seen = tunnel.terminated
         /\ LET w0 == [Deliver("socket_getaddrinfo_done_cb", status) EXCEPT
                          !.loop.req[s] = "none"]
                w1 == IF proc.freed
                      THEN [w0 EXCEPT !.proc.fault = "use_after_free",
                                      !.tunnel.terminated = seen]
                      ELSE w0
            IN  Set(socket_getaddrinfo_done_cb(w1, s, status))
    /\ UNCHANGED codec

\* The idle timeout elapsed with the timer still armed (one shot: the timer
\* is no longer armed when its callback runs).
OnTimerExpire ==
    /\ Alive
    /\ \E s \in Sockets, call \in TimeoutHookCalls, took \in BOOLEAN :
         /\ loop.timer[s]
         /\ Set(socket_timer_expire_cb(
                  [Enter("socket_timer_expire_cb") EXCEPT !.loop.timer[s] = FALSE],
                  s, call, took))
    /\ UNCHANGED codec

\* A close completion.  The stream's queued requests were completed (with
\* UV_ECANCELED) before its close callback runs.
OnCloseDone ==
    /\ Alive
    /\ \E s \in Sockets, r \in Resources :
         /\ loop.handle[<<s, r>>] = "closing"
         /\ r = "handle" => loop.writes[s] = 0 /\ loop.req[s] # "connect"
         /\ Set(socket_close_done_cb(
                  [Enter("socket_close_done_cb") EXCEPT
                      !.loop.handle[<<s, r>>] = "closed"],
                  s, r))
    /\ UNCHANGED codec

(***************************************************************************)
(* sockaddr_universal.c: the target-address codec.                         *)
(*                                                                         *)
(* A buffer is a sequence of bytes; data[i] of the source is data[i + 1]   *)
(* here.  A struct socks5_address is [addr_type, payload, port], payload   *)
(* being the bytes of the member of addr.addr that addr_type selects (for  *)
(* a domain name: the bytes copied into the zero-filled domainname array). *)
(***************************************************************************)
\* Bounds of the codec's inputs.
MaxInputLen == 20

MaxDeclaredLen == 3

MaxNameLen == 3

\* enum SOCKS5_ADDRTYPE (sockaddr_universal.h)
SOCKS5_ADDRTYPE_INVALID == 0

SOCKS5_ADDRTYPE_IPV4 == 1

SOCKS5_ADDRTYPE_DOMAINNAME == 3

SOCKS5_ADDRTYPE_IPV6 == 4

\* sizeof(struct in_addr), sizeof(struct in6_addr)
SizeofInAddr == 4

SizeofIn6Addr == 16

\* sizeof(uint8_t), sizeof(uint16_t)
SizeofUint8 == 1

SizeofUint16 == 2

\* data[i] with i counted from 0.  A read at or beyond len leaves the buffer:
\* what it yields is whatever byte lies there (beyond).
ReadByte(data, i, beyond) == IF i < Len(data) THEN data[i + 1] ELSE beyond

\* data[from], ..., data[from + n - 1]
Slice(data, from, n) == [k \in 1 .. n |-> data[from + k]]

\* strlen of a char array holding bytes b followed by zeros.
strlen(b) ==
    IF \E i \in 1 .. Len(b) : b[i] = 0
    THEN (CHOOSE i \in 1 .. Len(b) :
             b[i] = 0 /\ \A j \in 1 .. (i - 1) : b[j] # 0) - 1
    ELSE Len(b)

\* ntohs(*(uint16_t *)(data + offset)): the two bytes, most significant first.
ntohs_at(data, offset) == data[offset + 1] * 256 + data[offset + 2]

\* The port stored without htons on a little-endian host.
htons_bytes_missing(port) == <<port % 256, port \div 256>>

\* *(uint16_t *)(buffer + offset) = htons(port)
htons_bytes(port) == <<port \div 256, port % 256>>

\* A parse that zeroes the payload (the memset of addr->addr) before it
\* tests the length, so that a failure returns it zeroed.
parse_fail_cleared(addr, reads) ==
    [ret |-> FALSE,
     addr |-> [addr EXCEPT !.payload = [i \in 1 .. Len(@) |-> 0]],
     reads |-> reads]

\* return false: *addr is what it is at that point.
parse_fail(addr, reads) == [ret |-> FALSE, addr |-> addr, reads |-> reads]

\* socks5_address_parse(data, len, addr) with len = Len(data): the value
\* returned, *addr after the call, and the indices of data it read.
socks5_address_parse(data, addr, beyond) ==
    LET len == Len(data)
        Fixed(kind, addr_size) ==
            IF len < SizeofUint8 + addr_size + SizeofUint16
            THEN parse_fail(addr, {0})
            ELSE [ret |-> TRUE,
                  addr |-> [addr_type |-> kind,
                            payload |-> Slice(data, 1, addr_size),
                            port |-> ntohs_at(data, 1 + addr_size)],
                  reads |-> 0 .. (addr_size + SizeofUint16)]
    IN  IF len = 0 THEN parse_fail(addr, {})
        ELSE LET addr_type == data[1]
             IN  CASE addr_type = SOCKS5_ADDRTYPE_IPV4 -> Fixed(addr_type, SizeofInAddr)
                   [] addr_type = SOCKS5_ADDRTYPE_DOMAINNAME ->
                        LET addr_size == ReadByte(data, 1, beyond)
                        IN  IF len < SizeofUint8 + SizeofUint8 + addr_size + SizeofUint16
                            THEN parse_fail(addr, {0, 1})
                            ELSE [ret |-> TRUE,
                                  addr |-> [addr_type |-> addr_type,
                                            payload |-> Slice(data, 2, addr_size),
                                            port |-> ntohs_at(data, 2 + addr_size)],
                                  reads |-> 0 .. (1 + addr_size + SizeofUint16)]
                   [] addr_type = SOCKS5_ADDRTYPE_IPV6 -> Fixed(addr_type, SizeofIn6Addr)
                   [] OTHER ->
                        parse_fail([addr EXCEPT !.addr_type = SOCKS5_ADDRTYPE_INVALID], {0})

socks5_address_size(addr) ==
    CASE addr.addr_type = SOCKS5_ADDRTYPE_IPV4 ->
            SizeofUint8 + SizeofInAddr + SizeofUint16
      [] addr.addr_type = SOCKS5_ADDRTYPE_DOMAINNAME ->
            SizeofUint8 + SizeofUint8 + strlen(addr.payload) + SizeofUint16
      [] addr.addr_type = SOCKS5_ADDRTYPE_IPV6 ->
            SizeofUint8 + SizeofIn6Addr + SizeofUint16
      [] OTHER -> 0

\* socks5_address_binary(addr, buffer, size): ok is "the result is not NULL",
\* written the bytes stored into buffer from buffer[0] on.
socks5_address_binary(addr, size) ==
    IF size = 0 THEN [ok |-> FALSE, written |-> <<>>]
    ELSE IF size < socks5_address_size(addr) THEN [ok |-> FALSE, written |-> <<>>]
    ELSE LET tag == <<addr.addr_type % 256>>
         IN  CASE addr.addr_type = SOCKS5_ADDRTYPE_IPV4 ->
                    [ok |-> TRUE,
                     written |-> tag \o SubSeq(addr.payload, 1, SizeofInAddr)
                                     \o htons_bytes(addr.port)]
               [] addr.addr_type = SOCKS5_ADDRTYPE_DOMAINNAME ->
                    LET addr_size == strlen(addr.payload)
                    IN  [ok |-> TRUE,
                         written |-> tag \o <<addr_size % 256>>
                                         \o SubSeq(addr.payload, 1, addr_size)
                                         \o htons_bytes(addr.port)]
               [] addr.addr_type = SOCKS5_ADDRTYPE_IPV6 ->
                    [ok |-> TRUE,
                     written |-> tag \o SubSeq(addr.payload, 1, SizeofIn6Addr)
                                     \o htons_bytes(addr.port)]
               [] OTHER -> [ok |-> FALSE, written |-> tag]

(***************************************************************************)
(* The codec's inputs.                                                     *)
(***************************************************************************)
\* Kind tags on the wire: the three kinds, 0 and two values that are no kind.
InputTags == {0, 1, 2, 3, 4, 255}

\* Second byte of an input: the declared length when the tag is DomainName.
SecondBytes == (0 .. MaxDeclaredLen) \cup {255}

\* An input of n bytes: the tag, the second byte, then bytes that differ
\* from place to place.
InputBytes(tag, second, fill, n) ==
    [i \in 1 .. n |-> IF i = 1 THEN tag
                      ELSE IF i = 2 THEN second
                      ELSE (fill + 7 * i) % 256]

ParseInputs ==
    {InputBytes(tag, second, fill, n) :
        tag \in InputTags, second \in SecondBytes, fill \in {0, 100},
        n \in 0 .. MaxInputLen}

\* What the caller's struct holds before parse is called.
PriorAddress ==
    [addr_type |-> SOCKS5_ADDRTYPE_IPV6,
     payload |-> [i \in 1 .. SizeofIn6Addr |-> 170],
     port |-> 4660]

Ports == {0, 80, 255, 256, 443, 65535}

NameChars == {46, 97, 255}

\* Domain names: every string over NameChars of up to MaxNameLen characters,
\* and the longest name the one-byte length prefix can announce.
DomainNames ==
    UNION {[1 .. n -> NameChars] : n \in 0 .. MaxNameLen}
        \cup {[i \in 1 .. 255 |-> 97 + (i % 26)]}

Addresses ==
    {[addr_type |-> SOCKS5_ADDRTYPE_IPV4, payload |-> p, port |-> q] :
        p \in {<<1, 2, 3, 4>>, <<0, 0, 0, 0>>, <<255, 3, 0, 1>>}, q \in Ports}
    \cup {[addr_type |-> SOCKS5_ADDRTYPE_IPV6, payload |-> p, port |-> q] :
        p \in {[i \in 1 .. SizeofIn6Addr |-> (f * i) % 256] : f \in {0, 1, 17}},
        q \in Ports}
    \cup {[addr_type |-> SOCKS5_ADDRTYPE_DOMAINNAME, payload |-> p, port |-> q] :
        p \in DomainNames, q \in Ports}

NoAddress == [addr_type |-> SOCKS5_ADDRTYPE_INVALID, payload |-> <<>>, port |-> 0]

CodecIdle ==
    [phase |-> "idle", data |-> <<>>, addr |-> NoAddress, ret |-> FALSE,
     out |-> NoAddress, reads |-> {}, size |-> 0]

\* A caller holds bytes to parse, or an address to encode.
CodecInputs ==
    {[CodecIdle EXCEPT !.phase = "bytes", !.data = d, !.out = PriorAddress] :
        d \in ParseInputs}
    \cup {[CodecIdle EXCEPT !.phase = "address", !.addr = a] : a \in Addresses}

\* socks5_address_parse(data, len, &out) on the caller's bytes.
Parse ==
    /\ codec.phase = "bytes"
    /\ \E beyond \in {0, 255} :
         LET r == socks5_address_parse(codec.data, codec.out, beyond)
         IN  codec' = [codec EXCEPT !.phase = "parsed", !.ret = r.ret,
                                    !.out = r.addr, !.reads = r.reads]
    /\ UNCHANGED <<tunnel, socket, loop, proc, trace>>

\* socks5_address_binary(&addr, buffer, size) with a buffer of size bytes,
\* size being socks5_address_size(&addr) or one byte less.
Encode ==
    /\ codec.phase = "address"
    /\ \E short \in {0, 1} :
         LET size == socks5_address_size(codec.addr) - short
             r == socks5_address_binary(codec.addr, size)
         IN  codec' = [codec EXCEPT !.phase = "encoded", !.ret = r.ok,
                                    !.data = r.written, !.size = size]
    /\ UNCHANGED <<tunnel, socket, loop, proc, trace>>

\* The receiver parses what was encoded.
Decode ==
    /\ codec.phase = "encoded"
    /\ codec.ret
    /\ \E beyond \in {0, 255} :
         LET r == socks5_address_parse(codec.data, PriorAddress, beyond)
         IN  codec' = [codec EXCEPT !.phase = "decoded", !.ret = r.ret,
                                    !.out = r.addr, !.reads = r.reads]
    /\ UNCHANGED <<tunnel, socket, loop, proc, trace>>

CodecInit == TunnelInit /\ codec \in CodecInputs

CodecNext ==
    \/ Parse
    \/ Encode
    \/ Decode

CodecSpec == CodecInit /\ [][CodecNext]_vars


Init == TunnelInit /\ codec = CodecIdle

Next ==
    \/ Create
    \/ CallRead
    \/ CallReadStop
    \/ CallWrite
    \/ CallConnect
    \/ CallResolve
    \/ CallShutdown
    \/ SetStreaming
    \/ OnReadDone
    \/ OnWriteDone
    \/ OnConnectDone
    \/ OnResolveDone
    \/ OnTimerExpire
    \/ OnCloseDone

Spec == Init /\ [][Next]_vars

(***************************************************************************)
(* Properties of the Session (checked under Spec).                         *)
(***************************************************************************)
Handles == Sockets \X Resources

\* Close operations requested whose completion has not run.
Outstanding == {h \in Handles : loop.handle[h] = "closing"}

AllClosed == \A h \in Handles : loop.handle[h] = "closed"

\* The tunnel_ctx is allocated memory: its fields mean something.
SessionExists == proc.freed = FALSE /\ proc.fault # "use_after_free"

CompletionCallbacks ==
    {"socket_read_done_cb", "socket_write_done_cb", "socket_connect_done_cb",
     "socket_getaddrinfo_done_cb", "socket_timer_expire_cb"}

\* An operation started on socket s whose completion has not arrived.
InFlight(s) ==
    loop.reading[s] \/ loop.writes[s] > 0 \/ loop.req[s] # "none"

\* C1: after shutdown all four close operations (handle and timer of each
\* socket) are requested and the reference count is the number of them still
\* outstanding; the Session is destroyed (on_destroy, memory freed) when the
\* last of the four completes, not before, and once only, in whatever order
\* the completions arrive.
C1_DestroyedAtFourthClose ==
    /\ trace.destroyed = (IF AllClosed THEN 1 ELSE 0)
    /\ proc.freed <=> (trace.destroyed = 1)
    /\ trace.hook = "on_destroy" =>
          trace.op = "socket_close_done_cb" /\ AllClosed
    /\ (trace.op = "socket_close_done_cb" /\ AllClosed) => trace.hook = "on_destroy"
    /\ (SessionExists /\ tunnel.terminated) =>
          /\ \A h \in Handles : loop.handle[h] # "open"
          /\ tunnel.ref_count = Cardinality(Outstanding)
    /\ (SessionExists /\ ~tunnel.terminated) =>
          /\ \A h \in Handles : loop.handle[h] = "open"
          /\ tunnel.ref_count = 0

\* The fourth close completion has just run, after the other three.
C1_Witness ==
    /\ trace.op = "socket_close_done_cb"
    /\ trace.hook = "on_destroy"
    /\ trace.destroyed = 1
    /\ trace.add_refs = 4
    /\ proc.freed

\* C2: tunnel_shutdown on a Session that is already terminated changes
\* nothing (no socket state, no reference count, no close, no cancel, and
\* the process goes on); whoever calls shutdown and however often, each
\* socket is closed once and the reference count is incremented four times.
C2_ShutdownIdempotent ==
    /\ [][(tunnel.terminated /\ trace'.op = "tunnel_shutdown") =>
             /\ UNCHANGED <<tunnel, socket, loop, proc>>
             /\ trace'.cancels = trace.cancels
             /\ trace'.add_refs = trace.add_refs
             /\ trace'.closes = trace.closes
             /\ trace'.hook = "none"]_vars
    /\ [](/\ \A s \in Sockets : trace.closes[s] <= 1
          /\ trace.add_refs \in {0, 4}
          /\ trace.cancels <= 1
          /\ (SessionExists /\ tunnel.terminated) =>
                /\ trace.add_refs = 4
                /\ \A s \in Sockets : trace.closes[s] = 1)

\* The collaborator called tunnel_shutdown when a close completion of an
\* earlier shutdown had already run.
C2_Witness ==
    /\ trace.op = "tunnel_shutdown"
    /\ tunnel.terminated
    /\ trace.add_refs = 4
    /\ \E h \in Handles : loop.handle[h] = "closed"
    /\ proc.fault = "none"

\* C3: a completion callback that runs on a terminated Session invokes no
\* hook, starts and stops no operation and no timer, closes nothing, calls
\* no shutdown (no cancel, no reference taken) and leaves both sockets'
\* rdstate and wrstate as they are; only the completed request is gone.
C3_CallbackAfterShutdownIsNoOp ==
    [][(SessionExists /\ tunnel.terminated /\ trace'.op \in CompletionCallbacks) =>
          /\ trace'.hook = "none"
          /\ socket' = socket
          /\ loop'.timer = loop.timer
          /\ loop'.reading = loop.reading
          /\ loop'.handle = loop.handle
          /\ \A s \in Sockets :
                /\ loop'.writes[s] <= loop.writes[s]
                /\ loop'.req[s] \in {loop.req[s], "none"}
          /\ tunnel'.terminated
          /\ tunnel'.ref_count = tunnel.ref_count
          /\ trace'.cancels = trace.cancels
          /\ trace'.add_refs = trace.add_refs
          /\ proc' = proc]_vars

\* A resolution completion ran on a terminated Session (the callback itself
\* never shuts down, so the Session was terminated when it ran) and the
\* canceled write of a closing stream was delivered as well.
C3_Witness ==
    /\ SessionExists
    /\ tunnel.terminated
    /\ trace.op = "socket_getaddrinfo_done_cb"
    /\ trace.hook = "none"
    /\ \E s \in Sockets : loop.writes[s] > 0

\* C4 (as claimed): on a terminated Session no call of the collaborator
\* starts a read, write, connect or resolve or arms a timer.
C4_NoOperationStartsAfterShutdown ==
    [][(SessionExists /\ tunnel.terminated) =>
          \A s \in Sockets :
             /\ loop'.reading[s] => loop.reading[s]
             /\ loop'.writes[s] <= loop.writes[s]
             /\ loop'.req[s] \in {loop.req[s], "none"}
             /\ loop'.timer[s] => loop.timer[s]]_vars

\* C5 (as claimed): on a Session that is not terminated, a socket with an
\* operation in flight has its idle timer armed, so that the timeout fires
\* if the completion stays away.
C5_OperationInFlightHasTimer ==
    (SessionExists /\ proc.fault = "none" /\ ~tunnel.terminated) =>
        \A s \in Sockets : InFlight(s) => loop.timer[s]

\* C6 (as claimed): socket_dead is never left, and before it rdstate moves
\* only socket_stop -> socket_busy -> socket_done and back to socket_stop.
C6_ClosedIsTerminal ==
    [][SessionExists =>
          \A s \in Sockets :
             /\ socket[s].rdstate = "socket_dead" => socket'[s].rdstate = "socket_dead"
             /\ socket[s].wrstate = "socket_dead" => socket'[s].wrstate = "socket_dead"
             /\ socket'[s].rdstate # socket[s].rdstate =>
                   \/ socket'[s].rdstate = "socket_dead"
                   \/ socket'[s].rdstate = "socket_stop"
                   \/ socket[s].rdstate = "socket_stop" /\ socket'[s].rdstate = "socket_busy"
                   \/ socket[s].rdstate = "socket_busy" /\ socket'[s].rdstate = "socket_done"]_vars

\* C7: when on_init returned false the Session is shut down in
\* tunnel_initialize, the incoming socket never reads (rdstate is never
\* socket_busy, the stream never reads, its timer is never armed), and when
\* the four close completions have run on_destroy has been invoked once.
C7_FailedInitNeverReads ==
    (proc.phase = "running" /\ trace.on_init = FALSE) =>
        /\ tunnel.terminated
        /\ \A h \in Handles : loop.handle[h] # "open"
        /\ socket["incoming"].rdstate # "socket_busy"
        /\ ~loop.reading["incoming"]
        /\ ~loop.timer["incoming"]
        /\ trace.destroyed = (IF AllClosed THEN 1 ELSE 0)

\* on_init returned false and the Session has been destroyed.
C7_Witness ==
    /\ proc.phase = "running"
    /\ trace.on_init = FALSE
    /\ trace.destroyed = 1
    /\ trace.hook = "on_destroy"

\* The callbacks that complete a read, a write, a connect or a resolve.
OperationCallbacks ==
    {"socket_read_done_cb", "socket_write_done_cb", "socket_connect_done_cb",
     "socket_getaddrinfo_done_cb"}

\* The collaborator's hook each of them ends in.
CompletionHook(op) ==
    CASE op = "socket_read_done_cb" -> "on_read_complete"
      [] op = "socket_write_done_cb" -> "on_write_complete"
      [] op = "socket_connect_done_cb" -> "on_outgoing_connected"
      [] op = "socket_getaddrinfo_done_cb" -> "on_resolve_complete"

\* The statuses of a failed completion that is neither canceled nor refused.
FailureStatus == {"UV_EIO", "UV_EOF", "UV_ECONNRESET"}

\* The Session exists, is not terminated, and the process runs.
Live == SessionExists /\ proc.fault = "none" /\ ~tunnel.terminated

\* The socket whose request the step completed.
Completed(s) ==
    \/ loop'.writes[s] < loop.writes[s]
    \/ loop.req[s] # "none" /\ loop'.req[s] = "none"

\* C11 (as claimed): on a Session that is not terminated every failed
\* completion of a read, write, connect or resolve, canceled and refused
\* excepted, invokes the operation's completion hook with the status
\* recorded in c->result.
C11_FailuresReachTheHook ==
    [][(Live /\ trace'.op \in OperationCallbacks
             /\ trace'.status \in FailureStatus) =>
          /\ trace'.hook = CompletionHook(trace'.op)
          /\ Len(trace'.result) = 2
          /\ trace'.result[2] = trace'.status]_vars

\* C11 (amended): a failed write, connect or resolve completion (canceled
\* and refused excepted) invokes its hook with the status stored in the
\* result of the socket it completed on, and the Session stays up; the one
\* exception is a write completion in one-shot mode on a socket whose
\* wrstate is not socket_busy, where the callback's assertion aborts.  A
\* failed read completion (UV_EOF, UV_ECONNRESET) invokes no hook and
\* records nothing: it shuts the Session down.
C11_FailuresReachTheHookButRead ==
    [][(Live /\ trace'.op \in OperationCallbacks
             /\ trace'.status \in FailureStatus) =>
          IF trace'.op = "socket_read_done_cb"
          THEN /\ trace'.hook = "none"
               /\ trace'.result = <<>>
               /\ proc'.fault = "none" =>
                     /\ tunnel'.terminated
                     /\ \A h \in Handles : loop'.handle[h] = "closing"
          ELSE IF proc'.fault = "abort"
          THEN /\ trace'.op = "socket_write_done_cb"
               /\ proc.streaming = FALSE
               /\ \E s \in Sockets :
                     Completed(s) /\ socket[s].wrstate # "socket_busy"
               /\ trace'.hook = "none"
          ELSE /\ trace'.hook = CompletionHook(trace'.op)
               /\ \E s \in Sockets :
                     Completed(s) /\ trace'.result = <<s, trace'.status>>
               /\ ~tunnel'.terminated]_vars

\* A write failed on a Session that was up: on_write_complete was invoked
\* with the failure recorded, and the Session is still up.
C11_Witness ==
    /\ trace.op = "socket_write_done_cb"
    /\ trace.status = "UV_EIO"
    /\ trace.hook = "on_write_complete"
    /\ trace.result[2] = "UV_EIO"
    /\ ~tunnel.terminated
    /\ proc.fault = "none"

\* The completions the core treats as terminal.
TerminalCompletion(op, status) ==
    \/ op = "socket_connect_done_cb" /\ status \in {"UV_ECANCELED", "UV_ECONNREFUSED"}
    \/ op = "socket_write_done_cb" /\ status = "UV_ECANCELED"

\* The step shut the Session down from socket s's callback without a hook.
ShutDownSilently(s) ==
    /\ loop'.timer[s] = FALSE
    /\ tunnel'.terminated
    /\ \A h \in Handles : loop'.handle[h] = "closing"
    /\ trace'.hook = "none"

\* The step completed a write on s and handed it to on_write_complete.
WriteDelivered(s) ==
    /\ socket'[s].wrstate = "socket_done"
    /\ trace'.result = <<s, trace'.status>>
    /\ trace'.hook = "on_write_complete"
    /\ ~tunnel'.terminated

C13_ZeroLengthReadIsIgnored ==
    [][(Live /\ trace'.op = "socket_read_done_cb" /\ trace'.status = "ZERO") =>
          /\ socket' = socket
          /\ loop'.reading = loop.reading
          /\ trace'.hook = "none"]_vars

\* C14: a read completion with data on a Session that is not terminated
\* invokes on_read_complete for the socket it arrived on.  When is_streaming
\* reports false the stream stops reading in that step, and only socket_read
\* (called by the collaborator, or by tunnel_initialize) makes a stream read
\* again, so no second on_read_complete follows without a new read; when it
\* reports true the stream goes on reading and the next data completion
\* invokes the hook again.  (In one-shot mode the callbacks assert that
\* rdstate is socket_busy; where it is not the process aborts, no hook.)
C14_OneShotStopsStreamingContinues ==
    /\ [][(Live /\ trace'.op = "socket_read_done_cb" /\ trace'.status = "NREAD") =>
             IF proc'.fault = "abort"
             THEN /\ proc.streaming = FALSE
                  /\ \E s \in Sockets :
                        loop.reading[s] /\ socket[s].rdstate # "socket_busy"
                  /\ trace'.hook = "none"
             ELSE /\ trace'.hook = "on_read_complete"
                  /\ \E s \in Sockets :
                        /\ loop.reading[s]
                        /\ trace'.result = <<s, "NREAD">>
                        /\ socket'[s].rdstate = "socket_done"
                        /\ loop'.reading[s] = proc.streaming
                        /\ \A o \in Sockets \ {s} :
                              loop'.reading[o] = loop.reading[o]]_vars
    /\ [][\A s \in Sockets :
             /\ (~loop.reading[s] /\ loop'.reading[s]) =>
                    trace'.op \in {"socket_read", "tunnel_initialize"}
             /\ trace'.hook = "on_read_complete" =>
                    trace'.op = "socket_read_done_cb"]_vars

\* One-shot mode: the data completion was handed to on_read_complete and
\* the incoming stream no longer reads.
C14_Witness ==
    /\ trace.op = "socket_read_done_cb"
    /\ trace.hook = "on_read_complete"
    /\ trace.result = <<"incoming", "NREAD">>
    /\ proc.streaming = FALSE
    /\ ~loop.reading["incoming"]
    /\ socket["incoming"].rdstate = "socket_done"

\* A read is started on s only from rdstate socket_stop with the stream not
\* reading, and a write in one-shot mode only from wrstate socket_stop or
\* socket_done; both leave the state socket_busy.
StartsRespectState ==
    \A s \in Sockets :
       /\ (~loop.reading[s] /\ loop'.reading[s]) =>
              /\ socket[s].rdstate = "socket_stop"
              /\ socket'[s].rdstate = "socket_busy"
       /\ (trace'.op = "socket_read" /\ socket[s].rdstate = "socket_stop") =>
              ~loop.reading[s]
       /\ loop'.writes[s] > loop.writes[s] =>
              /\ proc.streaming \/ socket[s].wrstate \in {"socket_stop", "socket_done"}
              /\ socket'[s].wrstate = "socket_busy"

\* C15 (as claimed): operations start only from the states above, and so
\* at most one read and at most one write are in flight on a socket at any
\* time.
C15_OneReadOneWriteInFlight ==
    /\ [][SessionExists => StartsRespectState]_vars
    /\ [](SessionExists => \A s \in Sockets : loop.writes[s] <= 1)

\* C15 (amended): operations start only from the states above (a call in
\* any other state aborts), so at most one read is in flight on a socket;
\* the guard on write applies only while is_streaming reports false, and a
\* second write is started on a socket that has one in flight only in
\* streaming mode or after a write completed in between (wrstate
\* socket_done), up to any number of writes in flight.
C15_OneReadWritesOverlapWhenStreaming ==
    /\ [][SessionExists => StartsRespectState]_vars
    /\ [][\A s \in Sockets :
             (SessionExists /\ loop.writes[s] >= 1 /\ loop'.writes[s] > loop.writes[s]) =>
                proc.streaming \/ socket[s].wrstate = "socket_done"]_vars
    /\ [](\A s \in Sockets :
             (SessionExists /\ socket[s].rdstate = "socket_stop") => ~loop.reading[s])

\* A read and two writes are in flight together on the incoming socket, the
\* second write started in streaming mode.
C15_Witness ==
    /\ trace.op = "socket_write"
    /\ proc.streaming
    /\ loop.reading["incoming"]
    /\ loop.writes["incoming"] = 2
    /\ socket["incoming"].wrstate = "socket_busy"
    /\ proc.fault = "none"

\* A resolution request is with the resolver: its callback has not run.
ResolutionOutstanding ==
    loop.req["outgoing"] \in {"getaddrinfo", "getaddrinfo_canceled"}

\* C16: while the Session exists and the process runs, getaddrinfo_pending
\* is true exactly when a resolution started by socket_getaddrinfo has not
\* had its callback run; uv_cancel is called by the shutdown that terminates
\* the Session if and only if the flag is true then, and by nothing else; a
\* request whose cancel took effect leaves the resolver only through its
\* callback, run with UV_ECANCELED, and the callback clears the flag.
C16_PendingFlagTracksResolution ==
    /\ []((SessionExists /\ proc.fault = "none") =>
             (tunnel.getaddrinfo_pending <=> ResolutionOutstanding))
    /\ [][(SessionExists /\ proc.fault = "none") =>
             /\ (~tunnel.terminated /\ tunnel'.terminated) =>
                    trace'.cancels = trace.cancels
                                     + (IF tunnel.getaddrinfo_pending THEN 1 ELSE 0)
             /\ trace'.cancels # trace.cancels =>
                    ~tunnel.terminated /\ tunnel'.terminated
             /\ (loop.req["outgoing"] = "getaddrinfo_canceled"
                    /\ loop'.req["outgoing"] # "getaddrinfo_canceled") =>
                    /\ trace'.op = "socket_getaddrinfo_done_cb"
                    /\ trace'.status = "UV_ECANCELED"
             /\ trace'.op = "socket_getaddrinfo_done_cb" =>
                    /\ ~tunnel'.getaddrinfo_pending
                    /\ loop'.req["outgoing"] = "none"]_vars

\* The shutdown canceled the pending resolution, and the callback of the
\* canceled request ran on the terminated Session and cleared the flag.
C16_Witness ==
    /\ SessionExists
    /\ trace.op = "socket_getaddrinfo_done_cb"
    /\ trace.status = "UV_ECANCELED"
    /\ tunnel.terminated
    /\ trace.cancels = 1
    /\ ~tunnel.getaddrinfo_pending

\* C17 (as claimed): whenever control is back in the reactor, a socket's
\* rdstate is socket_dead exactly when its wrstate is, and the Session is
\* terminated exactly when all four states are socket_dead.
C17_ClosedTogether ==
    (SessionExists /\ proc.fault = "none") =>
        /\ \A s \in Sockets :
              socket[s].rdstate = "socket_dead" <=> socket[s].wrstate = "socket_dead"
        /\ tunnel.terminated <=>
              \A s \in Sockets : /\ socket[s].rdstate = "socket_dead"
                                  /\ socket[s].wrstate = "socket_dead"

\* C18 (as claimed): once the Session's memory is freed no operation of it
\* is outstanding and no timer is armed, so that no completion callback runs
\* on the freed Session.
C18_NothingOutstandingAtDestroy ==
    /\ proc.freed => \A s \in Sockets : ~InFlight(s) /\ ~loop.timer[s]
    /\ proc.fault # "use_after_free"

\* C19: while the Session exists, ref_count is the number of uv_close calls
\* whose close callback has not run; it is 0 as long as the Session is not
\* terminated, it lies in 0 .. 4, and every close callback finds it above 0
\* and takes one off.
C19_RefCountCountsCloses ==
    /\ [](SessionExists =>
             /\ tunnel.ref_count = Cardinality(Outstanding)
             /\ tunnel.ref_count \in 0 .. 4
             /\ ~tunnel.terminated => tunnel.ref_count = 0)
    /\ [][trace'.op = "socket_close_done_cb" =>
             /\ SessionExists
             /\ tunnel.ref_count > 0
             /\ tunnel'.ref_count = tunnel.ref_count - 1]_vars

\* Two of the four close callbacks have run: the count stands at 2.
C19_Witness ==
    /\ SessionExists
    /\ trace.op = "socket_close_done_cb"
    /\ tunnel.terminated
    /\ tunnel.ref_count = 2
    /\ Cardinality(Outstanding) = 2

\* C20 (as claimed): on a Session that is not terminated a socket's timer
\* is armed only while an operation started on that socket is in flight,
\* so that an expiry never finds a socket with nothing outstanding.
C20_TimerArmedOnlyWithOperation ==
    Live => \A s \in Sockets : loop.timer[s] => InFlight(s)

(***************************************************************************)
(* Properties of the codec (checked under CodecSpec).                      *)
(***************************************************************************)
KnownTags ==
    {SOCKS5_ADDRTYPE_IPV4, SOCKS5_ADDRTYPE_DOMAINNAME, SOCKS5_ADDRTYPE_IPV6}

\* The wire format: tag, payload (a name behind its length), port with the
\* most significant byte first.
WireLayout(a) ==
    <<a.addr_type>>
    \o (IF a.addr_type = SOCKS5_ADDRTYPE_DOMAINNAME
        THEN <<Len(a.payload)>> \o a.payload
        ELSE a.payload)
    \o <<a.port \div 256, a.port % 256>>

\* C8 (as claimed): parse reads no byte at an index at or beyond len, and
\* fails on every input that is too short for what its tag announces.
C8_ParseReadsInsideBuffer ==
    codec.phase = "parsed" =>
        /\ \A i \in codec.reads : i < Len(codec.data)
        /\ codec.ret => Len(codec.data) >= Len(WireLayout(codec.out))

\* C9: encoding a valid address into a buffer of socks5_address_size bytes
\* succeeds and writes exactly that many bytes, laid out as tag, payload,
\* big-endian port; parsing them yields the address that was encoded.  (A
\* buffer one byte short is refused.)
C9_EncodeParseRoundTrip ==
    /\ codec.phase = "encoded" =>
          IF codec.size = socks5_address_size(codec.addr)
          THEN /\ codec.ret
               /\ Len(codec.data) = codec.size
               /\ codec.data = WireLayout(codec.addr)
          ELSE ~codec.ret
    /\ codec.phase = "decoded" =>
          /\ codec.ret
          /\ codec.out.addr_type = codec.addr.addr_type
          /\ codec.out.payload = codec.addr.payload
          /\ codec.out.port = codec.addr.port
          /\ codec.reads = 0 .. (codec.size - 1)

\* The longest domain name, with a port whose two bytes differ, went round.
C9_Witness ==
    /\ codec.phase = "decoded"
    /\ codec.ret
    /\ codec.addr.addr_type = SOCKS5_ADDRTYPE_DOMAINNAME
    /\ Len(codec.addr.payload) = 255
    /\ codec.addr.port = 443
    /\ codec.out = codec.addr

\* C10 (as claimed): when parse fails, the caller's address is as it was.
C10_FailureLeavesOutputUntouched ==
    (codec.phase = "parsed" /\ ~codec.ret) => codec.out = PriorAddress

\* C10 (amended): when parse fails, payload and port of the caller's address
\* are as they were; the kind tag is as it was when the input is empty or
\* too short, and is SOCKS5_ADDRTYPE_INVALID when the tag is no known kind.
C10_FailureWritesOnlyInvalidTag ==
    (codec.phase = "parsed" /\ ~codec.ret) =>
        IF Len(codec.data) > 0 /\ codec.data[1] \notin KnownTags
        THEN codec.out = [PriorAddress EXCEPT !.addr_type = SOCKS5_ADDRTYPE_INVALID]
        ELSE codec.out = PriorAddress

\* An input with an unknown tag was refused: only the kind tag was written.
C10_Witness ==
    /\ codec.phase = "parsed"
    /\ ~codec.ret
    /\ Len(codec.data) > 1
    /\ codec.data[1] = 255
    /\ codec.out.addr_type = SOCKS5_ADDRTYPE_INVALID
    /\ codec.out.port = PriorAddress.port

====
